---- MODULE Spec2Model ----
(***************************************************************************)
(* createDeployment (scripts/src/createDeployment.ts): one run pushes a    *)
(* branch, creates a deploy hook, reconfigures the Pages project and fires *)
(* the hook under a mutex, then polls the deployment until it completes    *)
(* and, for Production, probes the url until it is live at the edge.       *)
(*                                                                         *)
(* A state is the position of every run (pc: the await the run is parked   *)
(* on), the two setInterval pollers of every run, the teardown actions     *)
(* registered so far and the leases held at the mutex service.  One action *)
(* is one turn of the event loop: the code between two awaits, or one      *)
(* timer callback.                                                         *)
(*                                                                         *)
(* Time is counted in check intervals: a setInterval callback runs one     *)
(* interval after the one before it, or later.  A poller only ever         *)
(* compares Date.now() with start + TIMEOUT, so its elapsed time saturates *)
(* one step past the timeout.                                              *)
(***************************************************************************)
EXTENDS Naturals, Sequences, FiniteSets

\* The concurrent createDeployment calls of the model.
Runs == {"A", "B"}

\* The check intervals of ./config (createDeployment.ts:7, 15): the unit of time.
DEPLOYMENT_CHECK_INTERVAL == 1
PROVISIONER_CHECK_INTERVAL == 1

\* The other constants of ./config (createDeployment.ts:6, 8, 16) are set per
\* installation: the model checks every setting up to these.
MaxDeploymentTimeout == 2
MaxFailuresThreshold == 1
MaxProvisionerTimeout == 2

Config ==
    [DEPLOYMENT_TIMEOUT : 1..MaxDeploymentTimeout,
     DEPLOYMENT_CHECK_API_FAILURES_THRESHOLD : 0..MaxFailuresThreshold,
     PROVISIONER_TIMEOUT : 1..MaxProvisionerTimeout]

\* The tightest setting.
TightConfig ==
    [DEPLOYMENT_TIMEOUT |-> 1, DEPLOYMENT_CHECK_API_FAILURES_THRESHOLD |-> 0,
     PROVISIONER_TIMEOUT |-> 1]

Environment == {"Local", "Staging", "Production"}
Trigger == {"GitHub", "DirectUpload"}

\* DeploymentResponse.result (createDeployment.ts:82-90).  "" stands for a
\* missing or empty field; "skipped" for a status outside the declared union.
Urls == {"", "https://a.pages.dev", "https://b.pages.dev"}
StageNames == {"build", "deploy"}
StageStatuses == {"", "idle", "active", "canceled", "success", "failure", "skipped"}

\* What the GET of the deployment can come back with: fetch or text() throws
\* or the body is no JSON with a result.latest_stage (Unparsable), or a result.
Unparsable == [parses |-> FALSE]
DeploymentResponse ==
    {Unparsable}
        \cup [parses : {TRUE}, url : Urls, name : StageNames, status : StageStatuses]

None == "none"

VARIABLES
    config,       \* the constants imported from ./config
    callers,      \* per run: the (environment, trigger) the harness may call it with
    pc,           \* per run: the await it is parked on
    environment,  \* per run: the environment argument
    trigger,      \* per run: the trigger argument
    result,       \* per run: what the createDeployment promise settled with
    calls,        \* per run: the remote operations it has started (and the
                  \* teardown registrations and warnings it made), in order
    teardown,     \* per run: names registered with teardownService, in order
    mutexes,      \* mutex key -> run holding the lease, or None
    deployment,   \* per run: the Deployment Poller (lines 374-462)
    provisioner,  \* per run: the Edge-Availability Poller (lines 788-830)
    step,                      \* where the configuration of the project stands
    configuredEnvironment,     \* the environment it is configured for
    features,                  \* the resolved features of the fixture, in order
    read,                      \* how many of them setUpFeatures has read
    fixtureConfig,             \* the fixture's config
    featuresConfig,            \* what setUpFeatures has merged so far
    combinedDeploymentConfig,  \* lines 131-164
    initialProject,            \* the project as the GET of line 492 returned it
    updatePayload,             \* the body of the PATCH of line 655
    project,                   \* the project as the PATCH returned it
    configureProjectError      \* the message of what configureProject threw

\* The configuration data of a run: the model follows it on its own, apart
\* from the remote calls and the pollers of the run.
configVars == <<step, configuredEnvironment, features, read, fixtureConfig, featuresConfig,
                combinedDeploymentConfig, initialProject, updatePayload, project, configureProjectError>>

\* The calls and the pollers of the runs.
runVars == <<config, callers, pc, environment, trigger, result, calls, teardown,
             mutexes, deployment, provisioner>>

vars == <<config, callers, pc, environment, trigger, result, calls, teardown,
          mutexes, deployment, provisioner, configVars>>

DEPLOYMENT_TIMEOUT == config.DEPLOYMENT_TIMEOUT
DEPLOYMENT_CHECK_API_FAILURES_THRESHOLD == config.DEPLOYMENT_CHECK_API_FAILURES_THRESHOLD
PROVISIONER_TIMEOUT == config.PROVISIONER_TIMEOUT

----
\* The outcome promise of a poller and the errors it can carry.
Pending == [kind |-> "Pending"]
NotStarted == [kind |-> "NotStarted"]
Success(url) == [kind |-> "Success", url |-> url]
Failure(error) == [kind |-> "Failure", error |-> error]

\* createDeployment.ts:383-385
DeploymentTimeoutError == [type |-> "timeout"]
\* createDeployment.ts:421-423
DeploymentFailedError(name, status) ==
    [type |-> "failed", stage |-> name, status |-> status]
\* createDeployment.ts:432-436
NotOkResponseError == [type |-> "notOk"]
\* createDeployment.ts:796-798
ProvisionerTimeoutError == [type |-> "provisionerTimeout"]

\* Any other error, told apart by its message.
Error(message) == [type |-> message]

Settled(outcome) == outcome.kind \in {"Success", "Failure"}

\* new Promise(...): resolve and reject act on a pending promise only.
Settle(outcome, value) == IF outcome = Pending THEN value ELSE outcome

\* let notOkResponses = 0 ... setInterval(...) ... new Promise(...)
NoDeploymentPoller ==
    [timer |-> FALSE, elapsed |-> 0 , fetching |-> 0,
     wrapping |-> 0, notOkResponses |-> 0, unhandled |-> 0, outcome |-> NotStarted]

StartDeploymentPoller == [NoDeploymentPoller EXCEPT !.timer = TRUE, !.outcome = Pending]

NoProvisionerPoller ==
    [timer |-> FALSE, elapsed |-> 0 , probing |-> 0,
     outcome |-> NotStarted]

StartProvisionerPoller == [NoProvisionerPoller EXCEPT !.timer = TRUE, !.outcome = Pending]

\* resolveWithDeploymentSuccess = (...args) => { clearInterval(...); resolve(...args) }
resolveWithDeploymentSuccess(p, url) ==
    [p EXCEPT !.timer = FALSE, !.outcome = Settle(p.outcome, Success(url))]

\* Faulty variant: reject without clearInterval.
rejectWithDeploymentFailure_keepsTimer(p, error) ==
    [p EXCEPT !.outcome = Settle(p.outcome, Failure(error))]

\* rejectWithDeploymentFailure = (...args) => { clearInterval(...); reject(...args) }
rejectWithDeploymentFailure(p, error) ==
    [p EXCEPT !.timer = FALSE, !.outcome = Settle(p.outcome, Failure(error))]

\* resolveWithProvisionerSuccess = (...args) => { clearInterval(...); resolve(...args) }
resolveWithProvisionerSuccess(p) ==
    [p EXCEPT !.timer = FALSE, !.outcome = Settle(p.outcome, Success(""))]

\* rejectWithProvisionerFailure = (...args) => { clearInterval(...); reject(...args) }
rejectWithProvisionerFailure(p, error) ==
    [p EXCEPT !.timer = FALSE, !.outcome = Settle(p.outcome, Failure(error))]

Min(a, b) == IF a < b THEN a ELSE b

----
\* The mutex service (./mutexes, imported at line 21): one lease per key.
MutexKeys == (Environment \ {"Local"}) \X (Trigger \ {"DirectUpload"})

\* encodeURIComponent(`${host.api}:${CLOUDFLARE_ACCOUNT_ID}:${PROJECT_NAME}`):
\* host is HOSTS[environment], the project is PAGES_PROJECTS[environment][trigger].
mutexKey(r) == <<environment[r], trigger[r]>>

\* acquireMutex({ logger, key }) resolves once no other lease on key is out.
acquireMutexGranted(key) == mutexes[key] = None
acquireMutex(key, r) == [mutexes EXCEPT ![key] = r]

\* releaseMutex({ mutex }): gives the lease back; when it throws, the lease
\* may or may not have been given back (kept tells which).
releaseMutex(key, r, thrown, kept) ==
    IF thrown /\ kept THEN mutexes
    ELSE [mutexes EXCEPT ![key] = IF @ = r THEN None ELSE @]

holdsLease(r) == \E k \in MutexKeys : mutexes[k] = r

----
\* JavaScript objects as the code uses them: the entries <<name, value>> in
\* insertion order, every name once.
keys(o) == [i \in 1..Len(o) |-> o[i][1]]
has(o, name) == \E i \in 1..Len(o) : o[i][1] = name
get(o, name) == o[CHOOSE i \in 1..Len(o) : o[i][1] = name][2]

\* o[name] = value: a name the object has keeps its place.
set(o, name, value) ==
    IF has(o, name)
    THEN [i \in 1..Len(o) |-> IF o[i][1] = name THEN <<name, value>> ELSE o[i]]
    ELSE Append(o, <<name, value>>)

RECURSIVE assign(_, _)
assign(o, entries) ==
    IF entries = <<>> THEN o
    ELSE assign(set(o, entries[1][1], entries[1][2]), Tail(entries))

\* Object.fromEntries(entries)
fromEntries(entries) == assign(<<>>, entries)

\* Faulty variant: the first operand wins.
spread_keepsFirst(a, b) == assign(assign(<<>>, b), a)

\* { ...a, ...b }
spread(a, b) == assign(assign(<<>>, a), b)

\* record.field where the field may be undefined: `...undefined` adds nothing,
\* and `undefined || {}` is {}.
orEmpty(record, field) == IF field \in DOMAIN record THEN record[field] ELSE <<>>

null == [null |-> TRUE]

\* The fields of deploymentConfig that createDeployment combines (lines
\* 131-164), and the ones setUpFeatures merges (lines 857-923).
Categories ==
    {"environmentVariables", "d1Databases", "durableObjectNamespaces", "kvNamespaces",
     "r2Buckets", "services", "queueProducers", "analyticsEngineDatasets"}
FeatureCategories ==
    {"environmentVariables", "d1Databases", "durableObjectNamespaces", "kvNamespaces",
     "r2Buckets", "services", "queueProducers"}

\* The field of Project.deployment_configs.preview (lines 49-79) that
\* configureProject writes from each (lines 527-646).
remoteField ==
    [environmentVariables |-> "env_vars", d1Databases |-> "d1_databases",
     durableObjectNamespaces |-> "durable_object_namespaces",
     kvNamespaces |-> "kv_namespaces", r2Buckets |-> "r2_buckets",
     services |-> "services", queueProducers |-> "queue_producers",
     analyticsEngineDatasets |-> "analytics_engine_datasets"]

\* The values of a config, as configureProject reads them: an environment
\* variable is a string; a binding has one resource per environment, with
\* the fields lines 544-640 read from it.
Names == {"OLD", "CACHE"}
Ids == {"abc", "xyz"}
Targets == {"Staging", "Production"}

resource(category, id, target) ==
    CASE category \in {"d1Databases", "durableObjectNamespaces", "kvNamespaces"} ->
            [id |-> <<id, target>>]
      [] category = "services" ->
            [name |-> <<id, target>>, environment |-> <<"environment", id, target>>]
      [] OTHER -> [name |-> <<id, target>>]

localValue(category, id) ==
    IF category = "environmentVariables" THEN id
    ELSE [target \in Targets |-> resource(category, id, target)]

\* Every object of a category over Names and Ids, in every insertion order.
Objects(category) ==
    LET Entries == Names \X {localValue(category, id) : id \in Ids}
    IN  {o \in UNION {[1..n -> Entries] : n \in 0..Cardinality(Names)} :
            \A i, j \in 1..Len(o) : o[i][1] = o[j][1] => i = j}

\* Under every other category the fixture config has one binding, named
\* after the category.
Marked(k) == << <<k, localValue(k, "abc")>> >>

\* The JavaScript value undefined, as the value of a string field: it is
\* equal to no string.
undefined == "<undefined>"

\* value || fallback, on strings
orElse(value, fallback) == IF value \in {undefined, ""} THEN fallback ELSE value

\* fixtureConfig.buildConfig with every field set.
FullBuildConfig ==
    [buildCommand |-> "npm run build", buildOutputDirectory |-> "dist",
     rootDirectory |-> "app"]

\* The build configs in which any field can be undefined or empty.
BuildConfigs ==
    [buildCommand : {undefined, "", "npm run build"},
     buildOutputDirectory : {undefined, "", "dist"},
     rootDirectory : {undefined, "", "app"}]

\* fixtureConfig with object o under category c, and the markers.
fixtureConfigWith(c, o, buildConfig) ==
    [buildConfig |-> buildConfig,
     deploymentConfig |->
        [k \in Categories \cup {"compatibilityDate", "compatibilityFlags"} |->
            CASE k = "compatibilityDate" -> "2023-05-18"
              [] k = "compatibilityFlags" -> <<"nodejs_compat">>
              [] k = c -> o
              [] OTHER -> Marked(k)]]

\* The fixture configs that bind names under category c.
FixtureConfigs(c) == {fixtureConfigWith(c, o, FullBuildConfig) : o \in Objects(c)}

\* The fixture configs that differ in their build config only.
BuildFixtureConfigs == {fixtureConfigWith("kvNamespaces", <<>>, b) : b \in BuildConfigs}

\* The featuresConfig arguments that bind names under category c.
FeaturesConfigs(c) ==
    {[deploymentConfig |-> [k \in Categories |-> IF k = c THEN o ELSE <<>>]] :
        o \in Objects(c)}

\* The main.feature files that declare bindings of category c, and nothing else.
FeatureConfigs(c) ==
    {[deploymentConfig |-> [k \in {c} |-> o]] : o \in Objects(c)}

----
InitWith(settings, harness) ==
    /\ config \in settings
    /\ callers = harness
    /\ pc = [r \in Runs |-> "idle"]
    /\ environment = [r \in Runs |-> None]
    /\ trigger = [r \in Runs |-> None]
    /\ result = [r \in Runs |-> Pending]
    /\ calls = [r \in Runs |-> <<>>]
    /\ teardown = [r \in Runs |-> <<>>]
    /\ mutexes = [k \in MutexKeys |-> None]
    /\ deployment = [r \in Runs |-> NoDeploymentPoller]
    /\ provisioner = [r \in Runs |-> NoProvisionerPoller]

\* No configuration data is followed.
NoConfiguration ==
    /\ step = None
    /\ configuredEnvironment = None
    /\ features = <<>>
    /\ read = 0
    /\ fixtureConfig = None
    /\ featuresConfig = None
    /\ combinedDeploymentConfig = None
    /\ initialProject = None
    /\ updatePayload = None
    /\ project = None
    /\ configureProjectError = None

\* One createDeployment call, with any arguments.
Init ==
    /\ InitWith(Config, [r \in Runs |-> IF r = "A" THEN Environment \X Trigger ELSE {}])
    /\ NoConfiguration

\* The same under the tightest setting, with a second call for the Staging
\* GitHub project running concurrently.
InitConcurrent ==
    /\ InitWith({TightConfig},
                [r \in Runs |-> IF r = "A" THEN Environment \X Trigger
                                    ELSE {<<"Staging", "GitHub">>}])
    /\ NoConfiguration

\* What a step of run r leaves alone.
RunFrame == UNCHANGED <<configVars, config, callers, environment, trigger>>
NoPollers == UNCHANGED <<deployment, provisioner>>

Goto(r, label) == pc' = [pc EXCEPT ![r] = label]
Called(r, names) == calls' = [calls EXCEPT ![r] = @ \o names]

\* A throw out of createDeployment rejects the promise it returned.
Throw(r, error) ==
    /\ pc' = [pc EXCEPT ![r] = "rejected"]
    /\ result' = [result EXCEPT ![r] = Failure(error)]

\* return { url }
Return(r, url) ==
    /\ pc' = [pc EXCEPT ![r] = "resolved"]
    /\ result' = [result EXCEPT ![r] = Success(url)]

\* createDeployment({ environment, trigger, ... }): lines 113-130, up to the
\* await of the local git commands.
createDeployment(r, env, trig) ==
    /\ <<env, trig>> \in callers[r]
    /\ pc[r] = "idle"
    /\ callers' = [callers EXCEPT ![r] = {}]
    /\ environment' = [environment EXCEPT ![r] = env]
    /\ trigger' = [trigger EXCEPT ![r] = trig]
    /\ Goto(r, "gitInit")
    /\ UNCHANGED <<configVars, config, result, calls, teardown, mutexes>>
    /\ NoPollers

\* Lines 374-380 and 453-462: startDeployment = Date.now(), notOkResponses = 0,
\* setInterval(...), and the await of the outcome promise.
AwaitDeployment(r) ==
    /\ deployment' = [deployment EXCEPT ![r] = StartDeploymentPoller]
    /\ Goto(r, "deployment")

\* Faulty variant: the push is started before ok(pagesProject.GIT_REPO).
GitInitDone_pushFirst(r) ==
    /\ pc[r] = "gitInit"
    /\ RunFrame
    /\ UNCHANGED <<teardown, mutexes, provisioner>>
    /\ \/ /\ Throw(r, Error("git"))
          /\ UNCHANGED <<calls, deployment>>
       \/ /\ environment[r] = "Local"
          /\ \E buildCommand \in BOOLEAN :
                Goto(r, IF buildCommand THEN "build" ELSE "wrangler")
          /\ UNCHANGED <<result, calls, deployment>>
       \/ /\ environment[r] # "Local"
          /\ \E host \in BOOLEAN, pagesProject \in BOOLEAN, GIT_REPO \in BOOLEAN :
                IF ~host \/ ~pagesProject
                THEN /\ Throw(r, Error(IF ~host THEN "ok(host)" ELSE "ok(pagesProject)"))
                     /\ UNCHANGED <<calls, deployment>>
                ELSE IF trigger[r] # "DirectUpload" /\ ~GIT_REPO
                THEN /\ Throw(r, Error("ok(pagesProject.GIT_REPO)"))
                     /\ Called(r, <<"push">>)
                     /\ UNCHANGED deployment
                ELSE IF trigger[r] # "DirectUpload"
                THEN /\ Goto(r, "push")
                     /\ Called(r, <<"push">>)
                     /\ UNCHANGED <<result, deployment>>
                ELSE \* else { // TODO }: straight to the poll, id unset
                     /\ AwaitDeployment(r)
                     /\ UNCHANGED <<result, calls>>

\* The local git commands are done (line 130): combinedDeploymentConfig, then
\* the Local branch up to its first await, or lines 234-249 up to the push.
GitInitDone(r) ==
    /\ pc[r] = "gitInit"
    /\ RunFrame
    /\ UNCHANGED <<teardown, mutexes, provisioner>>
    /\ \/ /\ Throw(r, Error("git"))
          /\ UNCHANGED <<calls, deployment>>
       \/ /\ environment[r] = "Local"
          /\ \E buildCommand \in BOOLEAN :
                Goto(r, IF buildCommand THEN "build" ELSE "wrangler")
          /\ UNCHANGED <<result, calls, deployment>>
       \/ /\ environment[r] # "Local"
          /\ \E host \in BOOLEAN, pagesProject \in BOOLEAN, GIT_REPO \in BOOLEAN :
                IF ~host \/ ~pagesProject
                    \/ (trigger[r] # "DirectUpload" /\ ~GIT_REPO)
                THEN \* ok(host), ok(pagesProject), ok(pagesProject.GIT_REPO)
                     /\ Throw(r, Error(IF ~host THEN "ok(host)"
                                       ELSE IF ~pagesProject THEN "ok(pagesProject)"
                                       ELSE "ok(pagesProject.GIT_REPO)"))
                     /\ UNCHANGED <<calls, deployment>>
                ELSE IF trigger[r] # "DirectUpload"
                THEN /\ Goto(r, "push")
                     /\ Called(r, <<"push">>)
                     /\ UNCHANGED <<result, deployment>>
                ELSE \* else { // TODO }: straight to the poll, id unset
                     /\ AwaitDeployment(r)
                     /\ UNCHANGED <<result, calls>>

\* Local: the build command is done (lines 176-186).
BuildDone(r) ==
    /\ pc[r] = "build"
    /\ RunFrame /\ NoPollers
    /\ UNCHANGED <<calls, teardown, mutexes>>
    /\ \/ Throw(r, Error("build"))
       \/ Goto(r, "wrangler") /\ UNCHANGED result

\* Local: wranglerPagesDev has answered (lines 199-232).
WranglerDone(r) ==
    /\ pc[r] = "wrangler"
    /\ RunFrame /\ NoPollers
    /\ UNCHANGED <<calls, teardown, mutexes>>
    /\ \/ Throw(r, Error("wrangler"))
       \/ \E url \in Urls \ {""} : Return(r, url)

\* Faulty variant: the deploy hook is created before the branch deletion is
\* registered.
PushDone_hookFirst(r) ==
    /\ pc[r] = "push"
    /\ RunFrame /\ NoPollers
    /\ UNCHANGED mutexes
    /\ \/ /\ Throw(r, Error("push"))
          /\ UNCHANGED <<calls, teardown>>
       \/ /\ teardown' = [teardown EXCEPT ![r] = Append(@, "Delete Git branch")]
          /\ Called(r, <<"createDeployHook", "register Delete Git branch">>)
          /\ Goto(r, "createDeployHook")
          /\ UNCHANGED result

\* The push is done (lines 250-281): register the branch deletion, then POST
\* deploy_hooks.
PushDone(r) ==
    /\ pc[r] = "push"
    /\ RunFrame /\ NoPollers
    /\ UNCHANGED mutexes
    /\ \/ /\ Throw(r, Error("push"))
          /\ UNCHANGED <<calls, teardown>>
       \/ /\ teardown' = [teardown EXCEPT ![r] = Append(@, "Delete Git branch")]
          /\ Called(r, <<"register Delete Git branch", "createDeployHook">>)
          /\ Goto(r, "createDeployHook")
          /\ UNCHANGED result

\* Faulty variant: the hook deletion is not registered.
CreateDeployHookDone_noTeardown(r) ==
    /\ pc[r] = "createDeployHook"
    /\ RunFrame /\ NoPollers
    /\ UNCHANGED <<mutexes, teardown>>
    /\ \/ /\ Throw(r, Error("Could not create Deploy Hook."))
          /\ UNCHANGED calls
       \/ /\ Called(r, <<"acquireMutex">>)
          /\ Goto(r, "acquireMutex")
          /\ UNCHANGED result

\* Faulty variant: configureProject without acquireMutex.
CreateDeployHookDone_noMutex(r) ==
    /\ pc[r] = "createDeployHook"
    /\ RunFrame /\ NoPollers
    /\ UNCHANGED mutexes
    /\ \/ /\ Throw(r, Error("Could not create Deploy Hook."))
          /\ UNCHANGED <<calls, teardown>>
       \/ /\ teardown' = [teardown EXCEPT ![r] = Append(@, "Delete Deploy Hook")]
          /\ Called(r, <<"register Delete Deploy Hook", "getProject">>)
          /\ Goto(r, "getProject")
          /\ UNCHANGED result

\* The deploy hook POST has answered (lines 283-324): on a hook id, register
\* the hook deletion and ask for the mutex.
CreateDeployHookDone(r) ==
    /\ pc[r] = "createDeployHook"
    /\ RunFrame /\ NoPollers
    /\ UNCHANGED mutexes
    /\ \/ /\ Throw(r, Error("Could not create Deploy Hook."))
          /\ UNCHANGED <<calls, teardown>>
       \/ /\ teardown' = [teardown EXCEPT ![r] = Append(@, "Delete Deploy Hook")]
          /\ Called(r, <<"register Delete Deploy Hook", "acquireMutex">>)
          /\ Goto(r, "acquireMutex")
          /\ UNCHANGED result

\* acquireMutex has answered (lines 324-333 and 485-500): configureProject
\* starts with the GET of the project.
AcquireMutexDone(r) ==
    /\ pc[r] = "acquireMutex"
    /\ RunFrame /\ NoPollers
    /\ UNCHANGED teardown
    /\ \/ /\ Throw(r, Error("acquireMutex"))
          /\ UNCHANGED <<calls, mutexes>>
       \/ /\ acquireMutexGranted(mutexKey(r))
          /\ mutexes' = acquireMutex(mutexKey(r), r)
          /\ Called(r, <<"getProject">>)
          /\ Goto(r, "getProject")
          /\ UNCHANGED result

\* configureProject: the GET has answered (lines 501-666); compute the
\* payload and PATCH the project.
GetProjectDone(r) ==
    /\ pc[r] = "getProject"
    /\ RunFrame /\ NoPollers
    /\ UNCHANGED <<teardown, mutexes>>
    /\ \/ /\ Throw(r, Error("getProject"))
          /\ UNCHANGED calls
       \/ /\ Called(r, <<"patchProject">>)
          /\ Goto(r, "patchProject")
          /\ UNCHANGED result

\* Faulty variant: the deploy hook is fired although configureProject threw.
PatchProjectDone_firesAnyway(r) ==
    /\ pc[r] = "patchProject"
    /\ RunFrame /\ NoPollers
    /\ UNCHANGED <<teardown, mutexes>>
    /\ \/ /\ \E error \in {"patchProject", "verification"} : Throw(r, Error(error))
          /\ Called(r, <<"fireDeployHook">>)
       \/ /\ Called(r, <<"fireDeployHook">>)
          /\ Goto(r, "fireDeployHook")
          /\ UNCHANGED result

\* configureProject: the PATCH has answered and is verified (lines 668-779):
\* the PATCH or one of the assertions on its answer failed, or, back in
\* createDeployment, POST the deploy hook (lines 335-344).
PatchProjectDone(r) ==
    /\ pc[r] = "patchProject"
    /\ RunFrame /\ NoPollers
    /\ UNCHANGED <<teardown, mutexes>>
    /\ \/ /\ \E error \in {"patchProject", "verification"} : Throw(r, Error(error))
          /\ UNCHANGED calls
       \/ /\ Called(r, <<"fireDeployHook">>)
          /\ Goto(r, "fireDeployHook")
          /\ UNCHANGED result

\* Faulty variant: the poll starts without releaseMutex.
FireDeployHookDone_noRelease(r) ==
    /\ pc[r] = "fireDeployHook"
    /\ RunFrame
    /\ UNCHANGED <<teardown, mutexes, provisioner>>
    /\ \/ /\ Throw(r, Error("Could not create Deployment."))
          /\ UNCHANGED <<calls, deployment>>
       \/ /\ AwaitDeployment(r)
          /\ UNCHANGED <<result, calls>>

\* The deploy hook has answered (lines 346-365): on a deployment id, release
\* the mutex.
FireDeployHookDone(r) ==
    /\ pc[r] = "fireDeployHook"
    /\ RunFrame /\ NoPollers
    /\ UNCHANGED <<teardown, mutexes>>
    /\ \/ /\ Throw(r, Error("Could not create Deployment."))
          /\ UNCHANGED calls
       \/ /\ Called(r, <<"releaseMutex">>)
          /\ Goto(r, "releaseMutex")
          /\ UNCHANGED result

\* What follows the release (lines 366-380, 453-462): a throw is only warned
\* about; the deployment poll starts either way.
AfterRelease(r) == AwaitDeployment(r)

\* Faulty variant: a throw of releaseMutex rejects the run.
ReleaseMutexDone_escalates(r) ==
    /\ pc[r] = "releaseMutex"
    /\ RunFrame
    /\ UNCHANGED <<teardown, provisioner>>
    /\ \E thrown \in BOOLEAN, kept \in BOOLEAN :
          /\ mutexes' = releaseMutex(mutexKey(r), r, thrown, kept)
          /\ IF thrown
             THEN Throw(r, Error("releaseMutex")) /\ UNCHANGED <<calls, deployment>>
             ELSE AfterRelease(r) /\ UNCHANGED <<calls, result>>

\* releaseMutex has answered or thrown.
ReleaseMutexDone(r) ==
    /\ pc[r] = "releaseMutex"
    /\ RunFrame
    /\ UNCHANGED <<result, teardown, provisioner>>
    /\ \E thrown \in BOOLEAN, kept \in BOOLEAN :
          /\ mutexes' = releaseMutex(mutexKey(r), r, thrown, kept)
          /\ Called(r, IF thrown THEN <<"logger.warn">> ELSE <<>>)
    /\ AfterRelease(r)

----
\* Deployment Poller.

\* Date.now() > startDeployment + DEPLOYMENT_TIMEOUT
deploymentTimedOut(p) == p.elapsed > DEPLOYMENT_TIMEOUT

\* Faulty variant: the timeout is checked only when no fetch is in flight.
deploymentCheckIntervalCallback_idleOnly(p) ==
    LET checked == IF deploymentTimedOut(p) /\ p.fetching = 0
                   THEN rejectWithDeploymentFailure(p, DeploymentTimeoutError)
                   ELSE p
    IN [checked EXCEPT !.fetching = @ + 1]

\* The setInterval callback (lines 380-401): the timeout check, then the
\* async body up to its await of fetch.
deploymentCheckIntervalCallback(p) ==
    LET checked == IF deploymentTimedOut(p)
                   THEN rejectWithDeploymentFailure(p, DeploymentTimeoutError)
                   ELSE p
    IN [checked EXCEPT !.fetching = @ + 1]

\* The timer fires: Date.now() is one interval on, or more when it fires late.
deploymentCheckInterval(r) ==
    /\ deployment[r].timer
    /\ \E late \in {0, 1} :
          deployment' = [deployment EXCEPT ![r] =
              deploymentCheckIntervalCallback(
                  [@ EXCEPT !.elapsed = Min(@ + DEPLOYMENT_CHECK_INTERVAL + late,
                                            DEPLOYMENT_TIMEOUT + 1)])]
    /\ UNCHANGED <<configVars, config, callers, pc, environment, trigger, result, calls, teardown,
                   mutexes, provisioner>>

\* fetch, text(), JSON.parse, ok(url), ok(latestStage.status) all went through.
deploymentResponseParsed(response) ==
    response.parses /\ response.url # "" /\ response.status # ""


\* Faulty variant: status "success" of any stage counts as success.
classifyDeployment_anyStage(p, response) ==
    IF response.status = "success"
    THEN resolveWithDeploymentSuccess(p, response.url)
    ELSE IF response.status \notin {"idle", "active", "success"}
    THEN rejectWithDeploymentFailure(
             p, DeploymentFailedError(response.name, response.status))
    ELSE p

\* Faulty variant: "canceled" counts as still ongoing.
classifyDeployment_canceledOngoing(p, response) ==
    IF response.name = "deploy" /\ response.status = "success"
    THEN resolveWithDeploymentSuccess(p, response.url)
    ELSE IF response.status \notin {"idle", "active", "success", "canceled"}
    THEN rejectWithDeploymentFailure(
             p, DeploymentFailedError(response.name, response.status))
    ELSE p

\* Faulty variant: an ongoing status resets the counter.
classifyDeployment_resetsCounter(p, response) ==
    IF response.name = "deploy" /\ response.status = "success"
    THEN resolveWithDeploymentSuccess(p, response.url)
    ELSE IF response.status \notin {"idle", "active", "success"}
    THEN rejectWithDeploymentFailure(
             p, DeploymentFailedError(response.name, response.status))
    ELSE [p EXCEPT !.notOkResponses = 0]

\* Lines 412-429: what a parsed response does to the poller.
classifyDeployment(p, response) ==
    IF response.name = "deploy" /\ response.status = "success"
    THEN resolveWithDeploymentSuccess(p, response.url)
    ELSE IF response.status \notin {"idle", "active", "success"}
    THEN rejectWithDeploymentFailure(
             p, DeploymentFailedError(response.name, response.status))
    ELSE p

\* Lines 430-436: the catch block up to its await of transformResponseIntoError.
catchNotOkResponse(p) ==
    [p EXCEPT !.notOkResponses = @ + 1, !.wrapping = @ + 1]

\* Lines 403-436: the async body from the answer of fetch on.
deploymentResponseBody(p, response) ==
    LET answered == [p EXCEPT !.fetching = @ - 1]
    IN IF deploymentResponseParsed(response)
       THEN classifyDeployment(answered, response)
       ELSE catchNotOkResponse(answered)

DeploymentResponseDone(r) ==
    /\ deployment[r].fetching > 0
    /\ \E response \in DeploymentResponse :
          deployment' = [deployment EXCEPT ![r] = deploymentResponseBody(@, response)]
    /\ UNCHANGED <<configVars, config, callers, pc, environment, trigger, result, calls, teardown,
                   mutexes, provisioner>>

\* Faulty variant: the threshold compared with >= instead of >.
notOkResponseThreshold_atLeast(p) ==
    LET wrapped == [p EXCEPT !.wrapping = @ - 1]
    IN IF p.notOkResponses >= DEPLOYMENT_CHECK_API_FAILURES_THRESHOLD
       THEN [wrapped EXCEPT !.unhandled = @ + 1]
       ELSE wrapped

\* Lines 438-449: the rest of the catch block.  `throw error` rejects the
\* promise of the async body, which nothing awaits: it reaches neither
\* rejectWithDeploymentFailure nor clearInterval.
notOkResponseThreshold(p) ==
    LET wrapped == [p EXCEPT !.wrapping = @ - 1]
    IN IF p.notOkResponses > DEPLOYMENT_CHECK_API_FAILURES_THRESHOLD
       THEN [wrapped EXCEPT !.unhandled = @ + 1]
       ELSE wrapped

NotOkResponseDone(r) ==
    /\ deployment[r].wrapping > 0
    /\ deployment' = [deployment EXCEPT ![r] = notOkResponseThreshold(@)]
    /\ UNCHANGED <<configVars, config, callers, pc, environment, trigger, result, calls, teardown,
                   mutexes, provisioner>>

\* Faulty variant: the edge is probed in every environment.
afterDeployment_anyEnvironment(r, outcome) ==
    IF outcome.kind = "Failure"
    THEN Throw(r, outcome.error) /\ UNCHANGED provisioner
    ELSE /\ provisioner' = [provisioner EXCEPT ![r] = StartProvisionerPoller]
         /\ Goto(r, "provisioner")
         /\ UNCHANGED result

\* Lines 463-469 and 788-830: the await of the outcome promise is over.
afterDeployment(r, outcome) ==
    IF outcome.kind = "Failure"
    THEN Throw(r, outcome.error) /\ UNCHANGED provisioner
    ELSE IF environment[r] = "Production"
    THEN /\ provisioner' = [provisioner EXCEPT ![r] = StartProvisionerPoller]
         /\ Goto(r, "provisioner")
         /\ UNCHANGED result
    ELSE Return(r, outcome.url) /\ UNCHANGED provisioner

DeploymentSettled(r) ==
    /\ pc[r] = "deployment"
    /\ Settled(deployment[r].outcome)
    /\ afterDeployment(r, deployment[r].outcome)
    /\ UNCHANGED <<configVars, config, callers, environment, trigger, calls, teardown, mutexes,
                   deployment>>

----
\* Edge-Availability Poller (waitForDeploymentToBeProvisioned).

\* Date.now() > startProvisioner + PROVISIONER_TIMEOUT
provisionerTimedOut(p) == p.elapsed > PROVISIONER_TIMEOUT

\* The setInterval callback (lines 793-804), up to the await of fetch(url).
provisionerCheckIntervalCallback(p) ==
    LET checked == IF provisionerTimedOut(p)
                   THEN rejectWithProvisionerFailure(p, ProvisionerTimeoutError)
                   ELSE p
    IN [checked EXCEPT !.probing = @ + 1]

\* The timer fires: Date.now() is one interval on, or more when it fires late.
provisionerCheckInterval(r) ==
    /\ provisioner[r].timer
    /\ \E late \in {0, 1} :
          provisioner' = [provisioner EXCEPT ![r] =
              provisionerCheckIntervalCallback(
                  [@ EXCEPT !.elapsed = Min(@ + PROVISIONER_CHECK_INTERVAL + late,
                                            PROVISIONER_TIMEOUT + 1)])]
    /\ UNCHANGED <<configVars, config, callers, pc, environment, trigger, result, calls, teardown,
                   mutexes, deployment>>

\* What a probe can come back with: fetch or responseIsNotProvisioned throws,
\* or responseIsNotProvisioned answers.
Probes == {"throws", "notProvisioned", "provisioned"}

\* Faulty variant: a probe that throws fails the poller.
probeBody_throwFails(p, probe) ==
    LET answered == [p EXCEPT !.probing = @ - 1]
    IN IF probe = "provisioned"
       THEN resolveWithProvisionerSuccess(answered)
       ELSE IF probe = "throws"
       THEN rejectWithProvisionerFailure(answered, Error("Could not check the deployment URL."))
       ELSE answered

\* Lines 805-817: the async body from the answer of fetch(url) on.
probeBody(p, probe) ==
    LET answered == [p EXCEPT !.probing = @ - 1]
    IN IF probe = "provisioned"
       THEN resolveWithProvisionerSuccess(answered)
       ELSE answered

ProbeDone(r) ==
    /\ provisioner[r].probing > 0
    /\ \E probe \in Probes :
          provisioner' = [provisioner EXCEPT ![r] = probeBody(@, probe)]
    /\ UNCHANGED <<configVars, config, callers, pc, environment, trigger, result, calls, teardown,
                   mutexes, deployment>>

\* Faulty variant: the provisioner's failure is not awaited.
afterProvisioner_ignoresFailure(r, outcome) ==
    Return(r, deployment[r].outcome.url)

\* Lines 831-832 and 469: waitForDeploymentToBeProvisioned returns or throws.
afterProvisioner(r, outcome) ==
    IF outcome.kind = "Failure"
    THEN Throw(r, outcome.error)
    ELSE Return(r, deployment[r].outcome.url)

ProvisionerSettled(r) ==
    /\ pc[r] = "provisioner"
    /\ Settled(provisioner[r].outcome)
    /\ afterProvisioner(r, provisioner[r].outcome)
    /\ UNCHANGED <<configVars, config, callers, environment, trigger, calls, teardown, mutexes,
                   deployment, provisioner>>

----
Next ==
    \E r \in Runs :
       \/ \E env \in Environment, trig \in Trigger : createDeployment(r, env, trig)
       \/ GitInitDone(r)
       \/ BuildDone(r)
       \/ WranglerDone(r)
       \/ PushDone(r)
       \/ CreateDeployHookDone(r)
       \/ AcquireMutexDone(r)
       \/ GetProjectDone(r)
       \/ PatchProjectDone(r)
       \/ FireDeployHookDone(r)
       \/ ReleaseMutexDone(r)
       \/ deploymentCheckInterval(r)
       \/ DeploymentResponseDone(r)
       \/ NotOkResponseDone(r)
       \/ DeploymentSettled(r)
       \/ provisionerCheckInterval(r)
       \/ ProbeDone(r)
       \/ ProvisionerSettled(r)

\* One createDeployment call.
Spec == Init /\ [][Next]_vars

\* Two concurrent createDeployment calls.
SpecConcurrent == InitConcurrent /\ [][Next]_vars

\* Spec with the scheduling of the event loop: an interval timer that is not
\* cleared keeps firing.
FairSpec ==
    Spec /\ \A r \in Runs : WF_vars(deploymentCheckInterval(r))
                            /\ WF_vars(provisionerCheckInterval(r))

----
\* The configuration data: setUpFeatures, combinedDeploymentConfig and the
\* update payload of configureProject.

\* The number of features a fixture lists.
MaxFeatures == 2

ConfigFrame == UNCHANGED runVars

\* const featuresConfig = { deploymentConfig: { ... } } (lines 857-867)
NoFeaturesConfig == [deploymentConfig |-> [k \in FeatureCategories |-> <<>>]]

\* featuresConfig.deploymentConfig = { ... } (lines 894-923)
mergeFeature(merged, feature) ==
    [deploymentConfig |->
        [environmentVariables |->
            spread(merged.deploymentConfig.environmentVariables,
                   orEmpty(feature.deploymentConfig, "environmentVariables")),
         d1Databases |->
            spread(merged.deploymentConfig.d1Databases,
                   orEmpty(feature.deploymentConfig, "d1Databases")),
         durableObjectNamespaces |->
            spread(merged.deploymentConfig.durableObjectNamespaces,
                   orEmpty(feature.deploymentConfig, "durableObjectNamespaces")),
         kvNamespaces |->
            spread(merged.deploymentConfig.kvNamespaces,
                   orEmpty(feature.deploymentConfig, "kvNamespaces")),
         r2Buckets |->
            spread(merged.deploymentConfig.r2Buckets,
                   orEmpty(feature.deploymentConfig, "r2Buckets")),
         services |->
            spread(merged.deploymentConfig.services,
                   orEmpty(feature.deploymentConfig, "services")),
         queueProducers |->
            spread(merged.deploymentConfig.queueProducers,
                   orEmpty(feature.deploymentConfig, "queueProducers"))]]

\* One turn of `for (const feature of features)` (lines 875-939): the
\* feature file is missing, unreadable or its setup command fails, or its
\* deploymentConfig is merged.
SetUpFeature ==
    /\ step = "setUpFeatures"
    /\ read < Len(features)
    /\ ConfigFrame
    /\ UNCHANGED <<configuredEnvironment, features, fixtureConfig,
                   combinedDeploymentConfig, initialProject, updatePayload, project, configureProjectError>>
    /\ \/ /\ step' = "failed"
          /\ UNCHANGED <<read, featuresConfig>>
       \/ /\ featuresConfig' = mergeFeature(featuresConfig, features[read + 1])
          /\ read' = read + 1
          /\ UNCHANGED step

\* return { config: featuresConfig } (line 945): createDeployment is called with it.
SetUpFeaturesReturn ==
    /\ step = "setUpFeatures"
    /\ read = Len(features)
    /\ step' = "createDeployment"
    /\ ConfigFrame
    /\ UNCHANGED <<configuredEnvironment, features, read, fixtureConfig, featuresConfig,
                   combinedDeploymentConfig, initialProject, updatePayload, project, configureProjectError>>

\* const combinedDeploymentConfig = { ... } (lines 131-164)
combineDeploymentConfig(fixtureCfg, featuresCfg) ==
    [environmentVariables |->
        spread(orEmpty(fixtureCfg.deploymentConfig, "environmentVariables"),
               orEmpty(featuresCfg.deploymentConfig, "environmentVariables")),
     d1Databases |->
        spread(orEmpty(fixtureCfg.deploymentConfig, "d1Databases"),
               orEmpty(featuresCfg.deploymentConfig, "d1Databases")),
     durableObjectNamespaces |->
        spread(orEmpty(fixtureCfg.deploymentConfig, "durableObjectNamespaces"),
               orEmpty(featuresCfg.deploymentConfig, "durableObjectNamespaces")),
     kvNamespaces |->
        spread(orEmpty(fixtureCfg.deploymentConfig, "kvNamespaces"),
               orEmpty(featuresCfg.deploymentConfig, "kvNamespaces")),
     r2Buckets |->
        spread(orEmpty(fixtureCfg.deploymentConfig, "r2Buckets"),
               orEmpty(featuresCfg.deploymentConfig, "r2Buckets")),
     services |->
        spread(orEmpty(fixtureCfg.deploymentConfig, "services"),
               orEmpty(featuresCfg.deploymentConfig, "services")),
     queueProducers |->
        spread(orEmpty(fixtureCfg.deploymentConfig, "queueProducers"),
               orEmpty(featuresCfg.deploymentConfig, "queueProducers")),
     analyticsEngineDatasets |->
        spread(orEmpty(fixtureCfg.deploymentConfig, "analyticsEngineDatasets"),
               orEmpty(featuresCfg.deploymentConfig, "analyticsEngineDatasets"))]

\* Lines 131-164, and on to the GET of configureProject (line 492).
CombineDeploymentConfig ==
    /\ step = "createDeployment"
    /\ combinedDeploymentConfig' = combineDeploymentConfig(fixtureConfig, featuresConfig)
    /\ step' = "getProject"
    /\ ConfigFrame
    /\ UNCHANGED <<configuredEnvironment, features, read, fixtureConfig, featuresConfig,
                   initialProject, updatePayload, project, configureProjectError>>

\* What the project holds under a name: configureProject reads the names only.
remoteValue == [remote |-> "zzz"]

\* The projects the GET can return: bindings under one category, the other
\* categories undefined.
Projects ==
    UNION {{[deployment_configs |-> [preview |-> [k \in {remoteField[c]} |-> o]]] :
                o \in {x \in UNION {[1..n -> Names \X {remoteValue}] :
                                       n \in 0..Cardinality(Names)} :
                          \A i, j \in 1..Len(x) : x[i][1] = x[j][1] => i = j}} :
           c \in Categories}

\* Object.keys(...).map((name) => [name, null])
nulls(o) == [i \in 1..Len(o) |-> <<keys(o)[i], null>>]

\* Faulty variant: the names the project has are left out of the payload.
deletions_none(preview, field) == <<>>

\* ...Object.fromEntries(Object.keys(initialProject...[field] || {}).map(...))
deletions(preview, field) == fromEntries(nulls(orEmpty(preview, field)))

\* updatePayload.deployment_configs.preview (lines 527-646), its bindings:
\* e is Object.entries(combinedDeploymentConfig.category), mapped entry by
\* entry ([name, value] is <<e[i][1], e[i][2]>>).
updatePreview(preview, combined, target) ==
    [env_vars |->
        LET e == combined.environmentVariables
        IN  spread(deletions(preview, "env_vars"),
                   fromEntries([i \in 1..Len(e) |->
                       <<e[i][1], [type |-> "plain_text", value |-> e[i][2]]>>])),
     d1_databases |->
        LET e == combined.d1Databases
        IN  spread(deletions(preview, "d1_databases"),
                   fromEntries([i \in 1..Len(e) |->
                       <<e[i][1], e[i][2][target]>>])),
     durable_object_namespaces |->
        LET e == combined.durableObjectNamespaces
        IN  spread(deletions(preview, "durable_object_namespaces"),
                   fromEntries([i \in 1..Len(e) |->
                       <<e[i][1], [namespace_id |-> e[i][2][target].id]>>])),
     kv_namespaces |->
        LET e == combined.kvNamespaces
        IN  spread(deletions(preview, "kv_namespaces"),
                   fromEntries([i \in 1..Len(e) |->
                       <<e[i][1], [namespace_id |-> e[i][2][target].id]>>])),
     r2_buckets |->
        LET e == combined.r2Buckets
        IN  spread(deletions(preview, "r2_buckets"),
                   fromEntries([i \in 1..Len(e) |->
                       <<e[i][1], e[i][2][target]>>])),
     services |->
        LET e == combined.services
        IN  spread(deletions(preview, "services"),
                   fromEntries([i \in 1..Len(e) |->
                       <<e[i][1], [service |-> e[i][2][target].name,
                             environment |-> e[i][2][target].environment]>>])),
     queue_producers |->
        LET e == combined.queueProducers
        IN  spread(deletions(preview, "queue_producers"),
                   fromEntries([i \in 1..Len(e) |->
                       <<e[i][1], e[i][2][target]>>])),
     analytics_engine_datasets |->
        LET e == combined.analyticsEngineDatasets
        IN  spread(deletions(preview, "analytics_engine_datasets"),
                   fromEntries([i \in 1..Len(e) |->
                       <<e[i][1], [dataset |-> e[i][2][target].name]>>]))]

\* const updatePayload: Project = { ... } (lines 516-648)
updatePayloadOf(initial, fixtureCfg, combined, target) ==
    LET bindings == updatePreview(initial.deployment_configs.preview, combined, target)
    IN  [build_config |->
            [build_command |-> orElse(fixtureCfg.buildConfig.buildCommand, ""),
             destination_dir |-> orElse(fixtureCfg.buildConfig.buildOutputDirectory, ""),
             root_dir |-> orElse(fixtureCfg.buildConfig.rootDirectory, "")],
         deployment_configs |->
            [preview |->
                [f \in DOMAIN bindings \cup {"compatibility_date", "compatibility_flags"} |->
                    CASE f = "compatibility_date" ->
                            fixtureCfg.deploymentConfig.compatibilityDate
                      [] f = "compatibility_flags" ->
                            fixtureCfg.deploymentConfig.compatibilityFlags
                      [] OTHER -> bindings[f]]]]

\* The GET of the project has answered (lines 492-515): it failed, or the
\* payload is computed from it (lines 516-648) and the PATCH is sent.
GetProjectResponse ==
    /\ step = "getProject"
    /\ ConfigFrame
    /\ UNCHANGED <<configuredEnvironment, features, read, fixtureConfig, featuresConfig,
                   combinedDeploymentConfig, project>>
    /\ \/ /\ step' = "failed"
          /\ configureProjectError' = "getProject"
          /\ UNCHANGED <<initialProject, updatePayload>>
       \/ \E initial \in Projects :
            /\ initialProject' = initial
            /\ updatePayload' = updatePayloadOf(initial, fixtureConfig,
                                                combinedDeploymentConfig,
                                                configuredEnvironment)
            /\ step' = "patchProject"
            /\ UNCHANGED configureProjectError

\* setUpFeatures is called with up to MaxFeatures features, all of one
\* category, and createDeployment with what it returns and a fixture config
\* of at most one binding in that category.
InitFeatures ==
    /\ InitWith({TightConfig}, [r \in Runs |-> {}])
    /\ step = "setUpFeatures"
    /\ configuredEnvironment = None
    /\ \E c \in Categories :
          /\ features \in UNION {[1..n -> FeatureConfigs(c)] : n \in 0..MaxFeatures}
          /\ fixtureConfig \in {f \in FixtureConfigs(c) : Len(f.deploymentConfig[c]) <= 1}
    /\ read = 0
    /\ featuresConfig = NoFeaturesConfig
    /\ combinedDeploymentConfig = None
    /\ initialProject = None
    /\ updatePayload = None
    /\ project = None
    /\ configureProjectError = None

NextFeatures ==
    \/ SetUpFeature
    \/ SetUpFeaturesReturn
    \/ CombineDeploymentConfig

SpecFeatures == InitFeatures /\ [][NextFeatures]_vars

\* The arguments of createDeployment the model draws: bindings of one
\* category in the fixture config and in the featuresConfig, or no binding
\* of that category and any build config.
Arguments(fixtureCfg, featuresCfg) ==
    \/ \E c \in Categories :
          /\ fixtureCfg \in FixtureConfigs(c)
          /\ featuresCfg \in FeaturesConfigs(c)
    \/ /\ fixtureCfg \in BuildFixtureConfigs
       /\ featuresCfg = [deploymentConfig |-> [k \in Categories |-> <<>>]]

\* createDeployment is called for Staging or Production with any fixture
\* config and any featuresConfig.
InitReconcile ==
    /\ InitWith({TightConfig}, [r \in Runs |-> {}])
    /\ step = "createDeployment"
    /\ configuredEnvironment \in Targets
    /\ features = <<>>
    /\ read = 0
    /\ Arguments(fixtureConfig, featuresConfig)
    /\ combinedDeploymentConfig = None
    /\ initialProject = None
    /\ updatePayload = None
    /\ project = None
    /\ configureProjectError = None

NextReconcile ==
    \/ CombineDeploymentConfig
    \/ GetProjectResponse

SpecReconcile == InitReconcile /\ [][NextReconcile]_vars

----
\* The verification of the PATCH (lines 650-779).

\* The second argument of each assert.deepStrictEqual of lines 698-770:
\* Object.entries(combinedDeploymentConfig.category).map(...), by the field
\* of the project it is compared with.
expectedPreview(combined, target) ==
    [env_vars |->
        LET e == combined.environmentVariables
        IN  [i \in 1..Len(e) |-> <<e[i][1], [type |-> "plain_text", value |-> e[i][2]]>>],
     d1_databases |->
        LET e == combined.d1Databases
        IN  [i \in 1..Len(e) |-> <<e[i][1], e[i][2][target]>>],
     durable_object_namespaces |->
        LET e == combined.durableObjectNamespaces
        IN  [i \in 1..Len(e) |-> <<e[i][1], [namespace_id |-> e[i][2][target].id]>>],
     kv_namespaces |->
        LET e == combined.kvNamespaces
        IN  [i \in 1..Len(e) |-> <<e[i][1], [namespace_id |-> e[i][2][target].id]>>],
     r2_buckets |->
        LET e == combined.r2Buckets
        IN  [i \in 1..Len(e) |-> <<e[i][1], e[i][2][target]>>],
     services |->
        LET e == combined.services
        IN  [i \in 1..Len(e) |->
                <<e[i][1], [service |-> e[i][2][target].name,
                            environment |-> e[i][2][target].environment]>>],
     queue_producers |->
        LET e == combined.queueProducers
        IN  [i \in 1..Len(e) |-> <<e[i][1], e[i][2][target]>>],
     analytics_engine_datasets |->
        LET e == combined.analyticsEngineDatasets
        IN  [i \in 1..Len(e) |-> <<e[i][1], [dataset |-> e[i][2][target].name]>>]]

\* Faulty variant: the entries are compared as sets.
deepStrictEqual_unordered(actual, expected) ==
    {actual[i] : i \in 1..Len(actual)} = {expected[i] : i \in 1..Len(expected)}

\* assert.deepStrictEqual(actual, expected) on two lists of entries: the
\* same entries in the same order.
deepStrictEqual(actual, expected) ==
    /\ Len(actual) = Len(expected)
    /\ \A i \in 1..Len(actual) : actual[i] = expected[i]

\* Lines 672-770: the message of the first assertion that fails, or None.
verificationError(patched, fixtureCfg, combined, target) ==
    LET preview == patched.deployment_configs.preview
        expected == expectedPreview(combined, target)
    IN  CASE patched.build_config.build_command # fixtureCfg.buildConfig.buildCommand ->
                "Build command was not set correctly."
          [] patched.build_config.destination_dir
                # fixtureCfg.buildConfig.buildOutputDirectory ->
                "Build output directory was not set correctly."
          [] patched.build_config.root_dir # fixtureCfg.buildConfig.rootDirectory ->
                "Root directory was not set correctly."
          [] preview.compatibility_date # fixtureCfg.deploymentConfig.compatibilityDate ->
                "Compatibility date was not set correctly."
          [] preview.compatibility_flags # fixtureCfg.deploymentConfig.compatibilityFlags ->
                "Compatibility flags were not set correctly."
          [] ~deepStrictEqual(orEmpty(preview, "env_vars"), expected.env_vars) ->
                "Environment variables were not set correctly."
          [] ~deepStrictEqual(orEmpty(preview, "d1_databases"), expected.d1_databases) ->
                "D1 database bindings were not set correctly."
          [] ~deepStrictEqual(orEmpty(preview, "durable_object_namespaces"),
                              expected.durable_object_namespaces) ->
                "Durable Object namespace bindings were not set correctly."
          [] ~deepStrictEqual(orEmpty(preview, "kv_namespaces"), expected.kv_namespaces) ->
                "KV namespace bindings were not set correctly."
          [] ~deepStrictEqual(orEmpty(preview, "r2_buckets"), expected.r2_buckets) ->
                "R2 bucket bindings were not set correctly."
          [] ~deepStrictEqual(orEmpty(preview, "services"), expected.services) ->
                "Service bindings were not set correctly."
          [] ~deepStrictEqual(orEmpty(preview, "queue_producers"),
                              expected.queue_producers) ->
                "Queue Producer bindings were not set correctly."
          [] ~deepStrictEqual(orEmpty(preview, "analytics_engine_datasets"),
                              expected.analytics_engine_datasets) ->
                "Analytics Engine dataset bindings were not set correctly."
          [] OTHER -> None

\* The project a remote returns that stores the payload as the assertions
\* expect it: the build config and the compatibility settings of the
\* payload, and the bindings of the combined config, in its order.
echo(payload, combined, target) ==
    LET expected == expectedPreview(combined, target)
    IN  [build_config |-> payload.build_config,
         deployment_configs |->
            [preview |->
                [f \in DOMAIN payload.deployment_configs.preview |->
                    IF f \in DOMAIN expected THEN expected[f]
                    ELSE payload.deployment_configs.preview[f]]]]

\* The objects a project can hold under the field of category c.
RemoteObjects(c, target) ==
    {expectedPreview([k \in Categories |-> IF k = c THEN o ELSE <<>>],
                     target)[remoteField[c]] : o \in Objects(c)}

\* What the PATCH can answer: the echo, or the echo with one field changed:
\* a build setting or a compatibility setting with another value, or the
\* bindings of one category replaced or left out.
PatchResponses(payload, combined, target) ==
    LET base == echo(payload, combined, target)
        preview == base.deployment_configs.preview
        with(changed) == [base EXCEPT !.deployment_configs.preview = changed]
    IN  {base}
        \cup {[base EXCEPT !.build_config[f] = "other"] : f \in DOMAIN base.build_config}
        \cup {with([preview EXCEPT !.compatibility_date = "2024-01-01"]),
              with([preview EXCEPT !.compatibility_flags = <<>>])}
        \cup UNION {{with([preview EXCEPT ![remoteField[c]] = o]) :
                        o \in RemoteObjects(c, target)} : c \in Categories}
        \cup {with([f \in DOMAIN preview \ {remoteField[c]} |-> preview[f]]) :
                 c \in Categories}

\* The PATCH has answered (lines 650-779): the request or the parse of the
\* answer failed, or the answer is verified and configureProject returns or
\* throws the message of the assertion that failed.
PatchProjectResponse ==
    /\ step = "patchProject"
    /\ ConfigFrame
    /\ UNCHANGED <<configuredEnvironment, features, read, fixtureConfig, featuresConfig,
                   combinedDeploymentConfig, initialProject, updatePayload>>
    /\ \/ /\ step' = "failed"
          /\ configureProjectError' = "patchProject"
          /\ UNCHANGED project
       \/ \E patched \in PatchResponses(updatePayload, combinedDeploymentConfig,
                                         configuredEnvironment) :
            LET message == verificationError(patched, fixtureConfig,
                                             combinedDeploymentConfig,
                                             configuredEnvironment)
            IN  /\ project' = patched
                /\ configureProjectError' = message
                /\ step' = IF message = None THEN "configured" ELSE "failed"

\* The project the payloads of InitVerify are computed from.
OldProject ==
    [deployment_configs |-> [preview |-> [kv_namespaces |-> << <<"OLD", remoteValue>> >>]]]

\* configureProject has sent the PATCH, for any arguments of createDeployment
\* and a project that had OLD among its KV namespaces.
InitVerify ==
    /\ InitWith({TightConfig}, [r \in Runs |-> {}])
    /\ step = "patchProject"
    /\ configuredEnvironment \in Targets
    /\ features = <<>>
    /\ read = 0
    /\ Arguments(fixtureConfig, featuresConfig)
    /\ combinedDeploymentConfig = combineDeploymentConfig(fixtureConfig, featuresConfig)
    /\ initialProject = OldProject
    /\ updatePayload = updatePayloadOf(initialProject, fixtureConfig,
                                       combinedDeploymentConfig, configuredEnvironment)
    /\ project = None
    /\ configureProjectError = None

NextVerify == PatchProjectResponse

SpecVerify == InitVerify /\ [][NextVerify]_vars

----
\* Claims.

Range(seq) == {seq[i] : i \in DOMAIN seq}

\* C1: the outcome of a Deployment Poller is settled once: after the first
\* transition to Success or Failure it never changes, the interval timer is
\* cleared and no further tick issues a fetch.
C1_SettledOnce ==
    [][\A r \in Runs :
          Settled(deployment[r].outcome) =>
             /\ deployment'[r].outcome = deployment[r].outcome
             /\ ~deployment[r].timer /\ ~deployment'[r].timer
             /\ deployment'[r].fetching <= deployment[r].fetching]_vars

\* A timeout Failure whose tick's own fetch, still in flight at the
\* transition, has been answered with a parsed response since.
C1_Witness ==
    \E r \in Runs :
       /\ deployment[r].outcome = Failure(DeploymentTimeoutError)
       /\ deployment[r].fetching = 0
       /\ deployment[r].notOkResponses = 0

\* C2: when the catch block finds notOkResponses above the threshold, a
\* pending poller becomes Failure with the wrapped error and its timer stops.
C2_ThresholdFailure ==
    [][\A r \in Runs :
          (/\ deployment'[r].wrapping < deployment[r].wrapping
           /\ deployment[r].notOkResponses > DEPLOYMENT_CHECK_API_FAILURES_THRESHOLD
           /\ deployment[r].outcome = Pending)
          => /\ deployment'[r].outcome = Failure(NotOkResponseError)
             /\ ~deployment'[r].timer]_vars

\* C3: a failed fetch that leaves notOkResponses at or below the threshold
\* changes neither the outcome nor the timer and throws nothing, and a
\* ("deploy", "success") response to a pending poller makes it Success.
C3_BelowThreshold ==
    /\ [][\A r \in Runs :
             (/\ \/ deployment'[r].notOkResponses > deployment[r].notOkResponses
                 \/ deployment'[r].wrapping < deployment[r].wrapping
              /\ deployment'[r].notOkResponses
                    <= DEPLOYMENT_CHECK_API_FAILURES_THRESHOLD)
             => /\ deployment'[r].outcome = deployment[r].outcome
                /\ deployment'[r].timer = deployment[r].timer
                /\ deployment'[r].unhandled = deployment[r].unhandled]_vars
    /\ [](\A r \in Runs :
             (deployment[r].outcome = Pending /\ deployment[r].fetching > 0) =>
                \A url \in Urls \ {""} :
                   deploymentResponseBody(
                       deployment[r],
                       [parses |-> TRUE, url |-> url, name |-> "deploy",
                        status |-> "success"]).outcome = Success(url))

\* Success after as many failed fetches as the threshold allows, all of them
\* handled, before the timeout.
C3_Witness ==
    \E r \in Runs :
       /\ deployment[r].outcome.kind = "Success"
       /\ deployment[r].notOkResponses >= 1
       /\ deployment[r].notOkResponses = DEPLOYMENT_CHECK_API_FAILURES_THRESHOLD
       /\ deployment[r].wrapping = 0
       /\ ~deploymentTimedOut(deployment[r])

\* C4: with the timer firing, a pending Deployment Poller is eventually
\* settled; a tick that finds the timeout exceeded makes a pending poller the
\* timeout Failure, whatever is in flight.
C4_TimeoutFires ==
    /\ \A r \in Runs :
          (deployment[r].outcome = Pending) ~> Settled(deployment[r].outcome)
    /\ [][\A r \in Runs :
             (/\ deployment[r].outcome = Pending
              /\ deployment'[r].fetching = deployment[r].fetching + 1
              /\ deploymentTimedOut(deployment'[r]))
             => /\ deployment'[r].outcome = Failure(DeploymentTimeoutError)
                /\ ~deployment'[r].timer]_vars

\* The timeout Failure, reached with an earlier fetch still in flight.
C4_Witness ==
    \E r \in Runs :
       /\ deployment[r].outcome = Failure(DeploymentTimeoutError)
       /\ deployment[r].fetching >= 2

\* C5: a response makes a pending poller Success exactly when it parsed with
\* stage "deploy" and status "success", and then with the response's url;
\* status "success" of another stage, "idle" and "active" leave it pending;
\* nothing but a response makes it Success.
C5_SuccessOnlyOnDeploySuccess ==
    /\ [](\A r \in Runs :
             (deployment[r].outcome = Pending /\ deployment[r].fetching > 0) =>
                \A response \in DeploymentResponse :
                   LET q == deploymentResponseBody(deployment[r], response)
                   IN /\ q.outcome.kind = "Success" =>
                            /\ response.parses
                            /\ response.name = "deploy"
                            /\ response.status = "success"
                            /\ q.outcome.url = response.url
                      /\ (/\ response.parses
                          /\ response.url # ""
                          /\ \/ response.status \in {"idle", "active"}
                             \/ response.status = "success" /\ response.name # "deploy")
                         => q.outcome = Pending /\ q.timer = deployment[r].timer)
    /\ [][\A r \in Runs :
             (/\ deployment'[r].outcome # deployment[r].outcome
              /\ deployment'[r].outcome.kind = "Success")
             => /\ deployment[r].outcome = Pending
                /\ deployment'[r].fetching = deployment[r].fetching - 1]_vars

\* Success with the url of the response, on the second answered fetch or later.
C5_Witness ==
    \E r \in Runs :
       /\ deployment[r].outcome = Success("https://b.pages.dev")
       /\ deployment[r].elapsed >= 2
       /\ deployment[r].fetching = 0
       /\ deployment[r].notOkResponses = 0
       /\ result[r] = Success("https://b.pages.dev")

\* C6: a response that parsed (with a url and a status) and whose status is
\* none of idle, active, success makes a pending poller Failure with the error
\* naming stage and status, whatever the stage; the run then rejects with it.
C6_FailureOnOtherStatus ==
    /\ [](\A r \in Runs :
             (deployment[r].outcome = Pending /\ deployment[r].fetching > 0) =>
                \A response \in DeploymentResponse :
                   (/\ response.parses
                    /\ response.url # ""
                    /\ response.status \notin {"", "idle", "active", "success"})
                   => LET q == deploymentResponseBody(deployment[r], response)
                      IN /\ q.outcome = Failure(DeploymentFailedError(
                                                    response.name, response.status))
                         /\ ~q.timer)
    /\ [][\A r \in Runs :
             (/\ pc[r] = "deployment" /\ pc'[r] # "deployment"
              /\ deployment[r].outcome.kind = "Failure")
             => pc'[r] = "rejected" /\ result'[r] = deployment[r].outcome]_vars

\* ("deploy", "failure") on the first tick has rejected the run.
C6_Witness ==
    \E r \in Runs :
       /\ result[r] = Failure(DeploymentFailedError("deploy", "failure"))
       /\ pc[r] = "rejected"
       /\ deployment[r].elapsed = 1
       /\ deployment[r].notOkResponses = 0

\* C7: the Edge-Availability Poller fails with the timeout only; a probe that
\* throws or is not yet provisioned changes nothing but the count of probes in
\* flight, and a provisioned one makes a pending poller Success.
C7_OnlyTimeoutFails ==
    \A r \in Runs :
       /\ provisioner[r].outcome.kind = "Failure" =>
             /\ provisioner[r].outcome.error = ProvisionerTimeoutError
             /\ provisionerTimedOut(provisioner[r])
       /\ (provisioner[r].outcome = Pending /\ provisioner[r].probing > 0) =>
             /\ \A probe \in {"throws", "notProvisioned"} :
                   probeBody(provisioner[r], probe)
                      = [provisioner[r] EXCEPT !.probing = @ - 1]
             /\ probeBody(provisioner[r], "provisioned").outcome.kind = "Success"
             /\ ~probeBody(provisioner[r], "provisioned").timer

\* Success at the last moment before the timeout, every probe answered.
C7_Witness ==
    \E r \in Runs :
       /\ provisioner[r].outcome.kind = "Success"
       /\ provisioner[r].elapsed = PROVISIONER_TIMEOUT
       /\ PROVISIONER_TIMEOUT >= 2
       /\ provisioner[r].probing = 0
       /\ pc[r] = "resolved"

\* C8: a tick that finds the provisioner timeout exceeded makes a pending
\* Edge-Availability Poller the timeout Failure and stops its timer, and
\* createDeployment then rejects with that error.
C8_ProvisionerTimeout ==
    /\ [][\A r \in Runs :
             (/\ provisioner[r].outcome = Pending
              /\ provisioner'[r].probing = provisioner[r].probing + 1
              /\ provisionerTimedOut(provisioner'[r]))
             => /\ provisioner'[r].outcome = Failure(ProvisionerTimeoutError)
                /\ ~provisioner'[r].timer]_vars
    /\ [](\A r \in Runs :
             (provisioner[r].outcome.kind = "Failure" /\ pc[r] # "provisioner") =>
                /\ pc[r] = "rejected"
                /\ result[r] = Failure(ProvisionerTimeoutError))

\* createDeployment has rejected with the provisioner timeout.
C8_Witness ==
    \E r \in Runs :
       /\ pc[r] = "rejected"
       /\ result[r] = Failure(ProvisionerTimeoutError)
       /\ ~provisioner[r].timer

\* From the answer of acquireMutex to the answer of releaseMutex.
CriticalSection == {"getProject", "patchProject", "fireDeployHook", "releaseMutex"}

\* C9: two runs with the same mutex key are never both between the answer of
\* acquireMutex and the answer of releaseMutex.
C9_MutualExclusion ==
    \A r1 \in Runs, r2 \in Runs :
       (/\ r1 # r2
        /\ pc[r1] \in CriticalSection
        /\ pc[r2] \in CriticalSection)
       => mutexKey(r1) # mutexKey(r2)

\* The second run fetches the project after the first has released.
C9_Witness ==
    /\ mutexKey("A") = mutexKey("B")
    /\ pc["B"] = "getProject"
    /\ "releaseMutex" \in Range(calls["A"])
    /\ pc["A"] = "deployment"

PollerActive(r) == deployment[r].timer \/ provisioner[r].timer

\* C10 as stated: a run with an active poller holds no lease.
C10_NoLeaseWhilePolling ==
    \A r \in Runs : PollerActive(r) => ~holdsLease(r)

\* C10: a run with an active poller is out of the critical section and, if it
\* ever asked for the mutex, has called releaseMutex; it still holds the lease
\* only if that release threw.
C10_ReleasedBeforePolling ==
    \A r \in Runs :
       PollerActive(r) =>
          /\ pc[r] \notin CriticalSection
          /\ "acquireMutex" \in Range(calls[r]) => "releaseMutex" \in Range(calls[r])
          /\ holdsLease(r) => "logger.warn" \in Range(calls[r])

\* The deployment poll running after a release that went through.
C10_Witness ==
    \E r \in Runs :
       /\ deployment[r].timer
       /\ "releaseMutex" \in Range(calls[r])
       /\ ~holdsLease(r)

\* The names of an object, as a set.
Names_of(o) == Range(keys(o))

\* C11: in the update payload, for every binding category: every name the
\* project has and the combined config has not is mapped to null, every
\* name of the combined config is mapped to the remote representation of
\* its value for the configured environment (also when the project has the
\* name), and no other name appears.
C11_Expected(category, value, target) ==
    CASE category = "environmentVariables" -> [type |-> "plain_text", value |-> value]
      [] category \in {"durableObjectNamespaces", "kvNamespaces"} ->
            [namespace_id |-> value[target].id]
      [] category = "services" ->
            [service |-> value[target].name, environment |-> value[target].environment]
      [] category = "analyticsEngineDatasets" -> [dataset |-> value[target].name]
      [] OTHER -> value[target]

C11_UpdatePayload ==
    step = "patchProject" =>
        \A c \in Categories :
            LET remote == orEmpty(initialProject.deployment_configs.preview, remoteField[c])
                desired == combinedDeploymentConfig[c]
                payload == updatePayload.deployment_configs.preview[remoteField[c]]
            IN  /\ \A n \in Names_of(remote) \ Names_of(desired) :
                      has(payload, n) /\ get(payload, n) = null
                /\ \A n \in Names_of(desired) :
                      /\ has(payload, n)
                      /\ get(payload, n) =
                            C11_Expected(c, get(desired, n), configuredEnvironment)
                /\ Names_of(payload) \subseteq Names_of(remote) \cup Names_of(desired)

\* The project has OLD, the combined config binds CACHE to abc: the payload
\* deletes OLD and writes CACHE.
C11_Witness ==
    /\ step = "patchProject"
    /\ keys(orEmpty(initialProject.deployment_configs.preview, "kv_namespaces")) = <<"OLD">>
    /\ combinedDeploymentConfig.kvNamespaces = << <<"CACHE", localValue("kvNamespaces", "abc")>> >>
    /\ updatePayload.deployment_configs.preview.kv_namespaces =
          << <<"OLD", null>>,
             <<"CACHE", [namespace_id |-> <<"abc", configuredEnvironment>>]>> >>

\* C12: in every category the combined deployment config has, for a name
\* the featuresConfig defines, the value of the featuresConfig, for a name
\* only the fixture config defines, the value of the fixture config, and
\* no other name.
C12_Combined ==
    step \in {"getProject", "patchProject"} =>
        \A c \in Categories :
            LET fixture == orEmpty(fixtureConfig.deploymentConfig, c)
                overlay == orEmpty(featuresConfig.deploymentConfig, c)
                combined == combinedDeploymentConfig[c]
            IN  /\ \A n \in Names_of(overlay) :
                      has(combined, n) /\ get(combined, n) = get(overlay, n)
                /\ \A n \in Names_of(fixture) \ Names_of(overlay) :
                      has(combined, n) /\ get(combined, n) = get(fixture, n)
                /\ Names_of(combined) = Names_of(fixture) \cup Names_of(overlay)

\* Both define CACHE, with different values, and only the fixture defines OLD.
C12_Witness ==
    /\ step = "getProject"
    /\ \E c \in Categories :
          /\ Names_of(fixtureConfig.deploymentConfig[c]) = {"OLD", "CACHE"}
          /\ Names_of(featuresConfig.deploymentConfig[c]) = {"CACHE"}
          /\ get(fixtureConfig.deploymentConfig[c], "CACHE")
                # get(featuresConfig.deploymentConfig[c], "CACHE")
          /\ get(combinedDeploymentConfig[c], "CACHE")
                = get(featuresConfig.deploymentConfig[c], "CACHE")
          /\ has(combinedDeploymentConfig[c], "OLD")

\* The last feature of the list that defines name n under category c.
LastDefining(c, n) ==
    CHOOSE i \in 1..Len(features) :
        /\ has(orEmpty(features[i].deploymentConfig, c), n)
        /\ \A j \in (i + 1)..Len(features) :
              ~has(orEmpty(features[j].deploymentConfig, c), n)

\* C15: when setUpFeatures has returned, in every category (analytics
\* datasets too) a name that some listed feature defines is in the
\* featuresConfig, and in the combined deployment config once it is built,
\* with the value of the last listed feature that defines it.
C15_LastFeatureWins ==
    step \in {"createDeployment", "getProject"} =>
        \A c \in Categories :
            \A i \in 1..Len(features) :
                \A n \in Names_of(orEmpty(features[i].deploymentConfig, c)) :
                    LET value == get(features[LastDefining(c, n)].deploymentConfig[c], n)
                        merged == orEmpty(featuresConfig.deploymentConfig, c)
                    IN  /\ has(merged, n) /\ get(merged, n) = value
                        /\ step = "getProject" =>
                              /\ has(combinedDeploymentConfig[c], n)
                              /\ get(combinedDeploymentConfig[c], n) = value

\* C13: once the deploy hook is created its deletion is registered, before
\* the mutex is asked for, so it is registered at every later step and in
\* every outcome that follows; when the creation fails only the branch
\* deletion is registered.
C13_HookTeardown ==
    \A r \in Runs :
       /\ "acquireMutex" \in Range(calls[r]) =>
             teardown[r] = <<"Delete Git branch", "Delete Deploy Hook">>
       /\ "Delete Deploy Hook" \in Range(teardown[r]) =>
             "acquireMutex" \in Range(calls[r])
       /\ result[r] = Failure(Error("Could not create Deploy Hook.")) =>
             teardown[r] = <<"Delete Git branch">>

\* A run rejected by the PATCH of the project, with the hook deletion registered.
C13_Witness ==
    \E r \in Runs :
       /\ result[r] = Failure(Error("patchProject"))
       /\ teardown[r] = <<"Delete Git branch", "Delete Deploy Hook">>

\* C14: a run that failed on ok(pagesProject.GIT_REPO) is not Local, was not
\* triggered by direct upload, and has made no remote call and no teardown
\* registration, holds no lease and has started no poller.
C14_FailsBeforeRemoteCalls ==
    \A r \in Runs :
       result[r] = Failure(Error("ok(pagesProject.GIT_REPO)")) =>
          /\ environment[r] # "Local" /\ trigger[r] # "DirectUpload"
          /\ pc[r] = "rejected"
          /\ calls[r] = <<>>
          /\ teardown[r] = <<>>
          /\ ~holdsLease(r)
          /\ deployment[r] = NoDeploymentPoller
          /\ provisioner[r] = NoProvisionerPoller

C14_Witness ==
    \E r \in Runs :
       /\ result[r] = Failure(Error("ok(pagesProject.GIT_REPO)"))
       /\ environment[r] = "Staging" /\ trigger[r] = "GitHub"

\* C16 as stated: a tick of the deployment poller that finds the timeout
\* exceeded fails the poller and issues no fetch.
C16_NoFetchOnTimeout ==
    [][\A r \in Runs :
          (/\ deployment'[r].elapsed > deployment[r].elapsed
           /\ deployment'[r].elapsed > DEPLOYMENT_TIMEOUT) =>
             /\ deployment[r].outcome = Pending =>
                   deployment'[r].outcome = Failure(DeploymentTimeoutError)
             /\ deployment'[r].fetching = deployment[r].fetching]_vars

\* C17 as stated: once a poller has settled, no later step changes its
\* outcome, its timer, its notOkResponses or raises an error.
C17_LateCompletionNoOp ==
    [][\A r \in Runs :
          /\ Settled(deployment[r].outcome) =>
                /\ deployment'[r].outcome = deployment[r].outcome
                /\ deployment'[r].timer = deployment[r].timer
                /\ deployment'[r].notOkResponses = deployment[r].notOkResponses
                /\ deployment'[r].unhandled = deployment[r].unhandled
          /\ Settled(provisioner[r].outcome) =>
                /\ provisioner'[r].outcome = provisioner[r].outcome
                /\ provisioner'[r].timer = provisioner[r].timer]_vars

\* C18: the edge poller has started only if the deployment poller resolved
\* Success and the environment is Production; the two timers never run
\* together; after a Failure of the deployment poller no probe is ever
\* made and the run is rejected with that failure.
C18_EdgeAfterDeployment ==
    \A r \in Runs :
       /\ provisioner[r] # NoProvisionerPoller =>
             /\ deployment[r].outcome.kind = "Success"
             /\ environment[r] = "Production"
       /\ ~(deployment[r].timer /\ provisioner[r].timer)
       /\ deployment[r].outcome.kind = "Failure" =>
             /\ provisioner[r] = NoProvisionerPoller
             /\ pc[r] \in {"deployment", "rejected"}
             /\ pc[r] = "rejected" => result[r] = deployment[r].outcome

\* The edge poller probing after the deployment poller's Success.
C18_Witness ==
    \E r \in Runs :
       /\ provisioner[r].timer /\ provisioner[r].probing > 0
       /\ deployment[r].outcome.kind = "Success"

\* C19: whatever releaseMutex does, the step that follows it starts the
\* deployment poll and settles nothing; and a run that called releaseMutex
\* ends with the url or the error of its pollers.
C19_ReleaseFailureOnlyLogged ==
    /\ [][\A r \in Runs :
             (pc[r] = "releaseMutex" /\ pc'[r] # "releaseMutex") =>
                /\ pc'[r] = "deployment"
                /\ deployment'[r] = StartDeploymentPoller
                /\ result'[r] = Pending]_vars
    /\ [](\A r \in Runs :
             "releaseMutex" \in Range(calls[r]) =>
                /\ pc[r] = "rejected" =>
                      \/ result[r] = deployment[r].outcome
                      \/ result[r] = provisioner[r].outcome
                /\ pc[r] = "resolved" =>
                      /\ result[r] = deployment[r].outcome
                      /\ environment[r] = "Production" =>
                            provisioner[r].outcome.kind = "Success")

\* A run whose release threw and that resolved with the url all the same.
C19_Witness ==
    \E r \in Runs :
       /\ "logger.warn" \in Range(calls[r])
       /\ pc[r] = "resolved"

\* The steps of a run before the poll, in the order of lines 243-369.
Steps ==
    <<"push", "register Delete Git branch", "createDeployHook",
      "register Delete Deploy Hook", "acquireMutex", "getProject", "patchProject",
      "fireDeployHook", "releaseMutex">>

IsStep(name) == name \in Range(Steps)

\* C20: what a run has done so far is a prefix of Steps; a run triggered
\* through the deploy hook polls only after all of them; the hook is
\* created with no lease held and before the mutex is asked for.
C20_StepOrder ==
    \A r \in Runs :
       LET done == SelectSeq(calls[r], IsStep)
       IN  /\ Len(done) <= Len(Steps)
           /\ done = SubSeq(Steps, 1, Len(done))
           /\ (deployment[r] # NoDeploymentPoller /\ trigger[r] # "DirectUpload") =>
                 done = Steps
           /\ pc[r] = "createDeployHook" =>
                 /\ ~holdsLease(r)
                 /\ "acquireMutex" \notin Range(calls[r])
           /\ (holdsLease(r) \/ "acquireMutex" \in Range(calls[r])) =>
                 /\ "register Delete Deploy Hook" \in Range(calls[r])
                 /\ pc[r] # "createDeployHook"

\* The poll running after all the steps.
C20_Witness ==
    \E r \in Runs :
       /\ deployment[r].timer
       /\ SelectSeq(calls[r], IsStep) = Steps

\* The errors configureProject throws (lines 506-512 and 771-777).
ConfigureProjectErrors ==
    {Failure(Error("getProject")), Failure(Error("patchProject")),
     Failure(Error("verification"))}

\* C21: a run fires its deploy hook at most once, holds the lease while
\* the hook is fired, and has fired it only if configureProject returned;
\* a run that configureProject rejected has fired no hook and polls no
\* deployment.
C21_FireOnceUnderLease ==
    \A r \in Runs :
       /\ Cardinality({i \in 1..Len(calls[r]) : calls[r][i] = "fireDeployHook"}) <= 1
       /\ pc[r] = "fireDeployHook" => holdsLease(r)
       /\ "fireDeployHook" \in Range(calls[r]) =>
             /\ {"getProject", "patchProject"} \subseteq Range(calls[r])
             /\ pc[r] \notin {"getProject", "patchProject"}
             /\ result[r] \notin ConfigureProjectErrors
       /\ result[r] \in ConfigureProjectErrors =>
             /\ pc[r] = "rejected"
             /\ "fireDeployHook" \notin Range(calls[r])
             /\ deployment[r] = NoDeploymentPoller

\* The hook being fired, under the lease.
C21_Witness ==
    \E r \in Runs :
       /\ pc[r] = "fireDeployHook"
       /\ holdsLease(r)
       /\ "fireDeployHook" \in Range(calls[r])

\* The message of the assertion on each category (lines 698-770).
BindingMessage ==
    [environmentVariables |-> "Environment variables were not set correctly.",
     d1Databases |-> "D1 database bindings were not set correctly.",
     durableObjectNamespaces |->
        "Durable Object namespace bindings were not set correctly.",
     kvNamespaces |-> "KV namespace bindings were not set correctly.",
     r2Buckets |-> "R2 bucket bindings were not set correctly.",
     services |-> "Service bindings were not set correctly.",
     queueProducers |-> "Queue Producer bindings were not set correctly.",
     analyticsEngineDatasets |->
        "Analytics Engine dataset bindings were not set correctly."]

\* The bindings of category c in the answer of the PATCH.
Patched(c) == orEmpty(project.deployment_configs.preview, remoteField[c])

\* The answer has the names of the combined config under category c,
\* each with the remote shape of its value.
SameBindings(c) ==
    /\ Names_of(Patched(c)) = Names_of(combinedDeploymentConfig[c])
    /\ \A n \in Names_of(Patched(c)) :
          get(Patched(c), n) =
             C11_Expected(c, get(combinedDeploymentConfig[c], n), configuredEnvironment)

\* ... and in the same order.
SameOrder(c) == keys(Patched(c)) = keys(combinedDeploymentConfig[c])

\* The build and compatibility settings of the answer are the fixture's.
SameSettings ==
    /\ project.build_config.build_command = fixtureConfig.buildConfig.buildCommand
    /\ project.build_config.destination_dir = fixtureConfig.buildConfig.buildOutputDirectory
    /\ project.build_config.root_dir = fixtureConfig.buildConfig.rootDirectory
    /\ project.deployment_configs.preview.compatibility_date
          = fixtureConfig.deploymentConfig.compatibilityDate
    /\ project.deployment_configs.preview.compatibility_flags
          = fixtureConfig.deploymentConfig.compatibilityFlags

\* C22: when the PATCH has answered, configureProject fails if any
\* category of the answer has an extra name, lacks a name, has another
\* value or has the entries in another order than the combined config;
\* a message about a category is thrown only if that category differs, and
\* if the other settings are as the fixture has them the message thrown
\* is the one of a category.
C22_StrictVerification ==
    (step \in {"configured", "failed"} /\ configureProjectError # "patchProject") =>
        /\ \A c \in Categories :
              /\ ~(SameBindings(c) /\ SameOrder(c)) => step = "failed"
              /\ configureProjectError = BindingMessage[c] =>
                    ~(SameBindings(c) /\ SameOrder(c))
        /\ (step = "failed" /\ SameSettings) =>
              \E c \in Categories : configureProjectError = BindingMessage[c]

\* The answer has the entries of the combined config in another order, and
\* configureProject throws the message of that category.
C22_Witness ==
    /\ step = "failed"
    /\ configureProjectError # "patchProject"
    /\ \E c \in Categories :
          /\ Len(Patched(c)) = 2
          /\ SameBindings(c)
          /\ ~SameOrder(c)
          /\ configureProjectError = BindingMessage[c]

\* C23 as stated: a run that was granted the lease and has terminated has
\* called releaseMutex.
C23_ReleaseOnEveryPath ==
    \A r \in Runs :
       (pc[r] \in {"resolved", "rejected"} /\ "getProject" \in Range(calls[r])) =>
          "releaseMutex" \in Range(calls[r])

\* C24: the counter of a poller is 0 when the poller starts; no step lowers
\* it or raises it by more than one; in every state of a poll with a fetch
\* in flight, an answer that fails to parse raises it by one and any other
\* answer leaves it as it is.
C24_CumulativeCounter ==
    /\ [][\A r \in Runs :
             /\ (deployment[r].outcome = NotStarted /\ deployment'[r].outcome # NotStarted) =>
                   deployment'[r].notOkResponses = 0
             /\ deployment[r].outcome # NotStarted =>
                   deployment'[r].notOkResponses \in
                      {deployment[r].notOkResponses, deployment[r].notOkResponses + 1}]_vars
    /\ [](\A r \in Runs :
             deployment[r].fetching > 0 =>
                \A response \in DeploymentResponse :
                   deploymentResponseBody(deployment[r], response).notOkResponses =
                      IF response.parses /\ response.url # "" /\ response.status # ""
                      THEN deployment[r].notOkResponses
                      ELSE deployment[r].notOkResponses + 1)

\* A poll still pending after a failed fetch, with an answer on its way.
C24_Witness ==
    \E r \in Runs :
       /\ deployment[r].outcome = Pending
       /\ deployment[r].notOkResponses > 0
       /\ deployment[r].fetching > 0

\* C25 as stated: when the answer of the PATCH has the build_config of the
\* payload, none of the build_config assertions fails.
C25_FaithfulBuildConfig ==
    (step \in {"configured", "failed"} /\ configureProjectError # "patchProject"
        /\ project.build_config = updatePayload.build_config) =>
       configureProjectError \notin
          {"Build command was not set correctly.",
           "Build output directory was not set correctly.",
           "Root directory was not set correctly."}

====
